---- MODULE Spec2Model ----
(***************************************************************************)
(* State-machine model of music_mcp_server.py: the track resolution        *)
(* pipeline (URL normaliser, signer, upstream client, redirect resolver,   *)
(* search-result cache, resolve_music_url) and the playback state.         *)
(*                                                                         *)
(* Strings are sequences of one-character strings, so that strip(),        *)
(* startswith(), urlparse() and urljoin() are computed, not assumed.       *)
(***************************************************************************)
EXTENDS Integers, Sequences, FiniteSets, TLC

VARIABLES
    token,      \* MUSIC_API_TOKEN, fixed at import time
    cache,      \* _search_result_cache: str(id) -> song entry
    playback,   \* playback_state: current_song, playlist, is_playing
    inv,        \* the tool invocation in flight: position, arguments, locals
    memo,       \* responses the upstream has given while it is unchanged
    prev,       \* the previous resolve when the one in flight repeats it
    latest_lrc, \* history: str(id) -> lrc of the latest entry a search stored
    visited,    \* history: the songs the latest run of next_song calls selected
    tasks       \* the tool invocations of the concurrent server, in call order

vars == <<token, cache, playback, inv, memo, prev, latest_lrc, visited, tasks>>

\* ------------------------------------------------------------------------
\* Strings
\* ------------------------------------------------------------------------

\* Python's None, and the empty str.
None == <<"None">>
Empty == <<>>

\* Characters str.strip() removes (those of the model's alphabet).
Whitespace == {" ", "\t", "\n", "\r"}

LowerLetters == {"a", "b", "c", "d", "e", "f", "g", "h", "i", "j", "k", "l", "m",
                 "n", "o", "p", "q", "r", "s", "t", "u", "v", "w", "x", "y", "z"}
UpperLetters == {"H", "T", "P", "S"}
Digits == {"0", "1", "2", "3", "4", "5", "6", "7", "8", "9"}

\* urllib.parse.scheme_chars
SchemeChars == LowerLetters \cup UpperLetters \cup Digits \cup {"+", "-", "."}

\* str.lower() on one character of the alphabet.
LowerChar(c) ==
    CASE c = "H" -> "h"
      [] c = "T" -> "t"
      [] c = "P" -> "p"
      [] c = "S" -> "s"
      [] OTHER -> c

Lower(s) == [i \in 1..Len(s) |-> LowerChar(s[i])]

RECURSIVE LStrip(_)
LStrip(s) ==
    IF s # <<>> /\ Head(s) \in Whitespace THEN LStrip(Tail(s)) ELSE s

RECURSIVE RStrip(_)
RStrip(s) ==
    IF s # <<>> /\ s[Len(s)] \in Whitespace
    THEN RStrip(SubSeq(s, 1, Len(s) - 1))
    ELSE s

\* str.strip()
Strip(s) == RStrip(LStrip(s))

\* str.startswith(p)
StartsWith(s, p) == Len(s) >= Len(p) /\ SubSeq(s, 1, Len(p)) = p

\* str.find(c) + 1: the 1-based position of the first c in s, 0 when absent.
Find(s, c) ==
    IF \E i \in 1..Len(s) : s[i] = c
    THEN CHOOSE i \in 1..Len(s) : s[i] = c /\ \A j \in 1..(i - 1) : s[j] # c
    ELSE 0

\* str.split(sep) for a one-character separator.
RECURSIVE Split(_, _)
SplitAt(s, sep, i) ==
    IF i = 0 THEN <<s>>
    ELSE <<SubSeq(s, 1, i - 1)>> \o Split(SubSeq(s, i + 1, Len(s)), sep)

Split(s, sep) == SplitAt(s, sep, Find(s, sep))

\* sep.join(parts)
RECURSIVE Join(_, _)
Join(parts, sep) ==
    IF parts = <<>> THEN <<>>
    ELSE IF Len(parts) = 1 THEN parts[1]
    ELSE parts[1] \o sep \o Join(Tail(parts), sep)

\* The characters of s as one TLA+ string (used for opaque digests only).
RECURSIVE Flat(_)
Flat(s) == IF s = <<>> THEN "" ELSE Head(s) \o Flat(Tail(s))

\* ------------------------------------------------------------------------
\* Configuration (module level)
\* ------------------------------------------------------------------------

\* MUSIC_API_BASE_URL, the default, as urlparse splits it.
BaseScheme == <<"h", "t", "t", "p", "s">>
BaseNetloc == <<"a", "p", "i", ".", "i", "-", "m", "e", "t", "o", ".", "c", "o", "m">>
BasePath == <<"/", "m", "e", "t", "i", "n", "g", "/", "a", "p", "i">>
MUSIC_API_BASE_URL == BaseScheme \o <<":", "/", "/">> \o BaseNetloc \o BasePath

\* MUSIC_SIGN_PARAM, the default.
MUSIC_SIGN_PARAM == <<"a", "u", "t", "h">>

\* MUSIC_SIGN_REQUIRED_TYPES
T_url == <<"u", "r", "l">>
T_lrc == <<"l", "r", "c">>
T_pic == <<"p", "i", "c">>
T_search == <<"s", "e", "a", "r", "c", "h">>
MUSIC_SIGN_REQUIRED_TYPES == {T_url, T_lrc, T_pic}

Netease == <<"n", "e", "t", "e", "a", "s", "e">>

\* ------------------------------------------------------------------------
\* urllib.parse, as far as _normalize_music_url uses it.  The alphabet has no
\* '#' or ';', so fragments and params do not arise.
\* ------------------------------------------------------------------------

\* url.lstrip(_WHATWG_C0_CONTROL_OR_SPACE), then the removal of the
\* characters of _UNSAFE_URL_BYTES_TO_REMOVE: what urlsplit parses.
UnsafeUrlChars == {"\t", "\r", "\n"}

UrlClean(url) == SelectSeq(LStrip(url), LAMBDA c : c \notin UnsafeUrlChars)

\* urlsplit's scheme: the text before the first ':' when it starts with a
\* letter and holds scheme characters only, lower-cased; else empty.
UrlScheme(url) ==
    IF /\ Find(UrlClean(url), ":") > 1
       /\ UrlClean(url)[1] \in LowerLetters \cup UpperLetters
       /\ \A j \in 1..(Find(UrlClean(url), ":") - 1) : UrlClean(url)[j] \in SchemeChars
    THEN Lower(SubSeq(UrlClean(url), 1, Find(UrlClean(url), ":") - 1))
    ELSE <<>>

\* What urlsplit leaves after the scheme.
AfterScheme(url) ==
    IF UrlScheme(url) = <<>> THEN UrlClean(url)
    ELSE SubSeq(UrlClean(url), Find(UrlClean(url), ":") + 1, Len(UrlClean(url)))

\* _splitnetloc(url, 2): the netloc ends at the first '/' or '?' after the
\* leading "//" (0: at the end of the text).
NetlocStop(r) ==
    IF \E i \in 3..Len(r) : r[i] \in {"/", "?"}
    THEN CHOOSE i \in 3..Len(r) :
            r[i] \in {"/", "?"} /\ \A j \in 3..(i - 1) : r[j] \notin {"/", "?"}
    ELSE Len(r) + 1

\* url[:2] == '//'
HasNetloc(url) == StartsWith(AfterScheme(url), <<"/", "/">>)

UrlNetloc(url) ==
    IF HasNetloc(url)
    THEN SubSeq(AfterScheme(url), 3, NetlocStop(AfterScheme(url)) - 1)
    ELSE <<>>

AfterNetloc(url) ==
    IF HasNetloc(url)
    THEN SubSeq(AfterScheme(url), NetlocStop(AfterScheme(url)), Len(AfterScheme(url)))
    ELSE AfterScheme(url)

Has(s, c) == \E i \in 1..Len(s) : s[i] = c

\* str.partition(c)[0] and str.partition(c)[2]
BeforeFirst(s, c) == IF Find(s, c) = 0 THEN s ELSE SubSeq(s, 1, Find(s, c) - 1)
AfterFirst(s, c) == IF Find(s, c) = 0 THEN <<>> ELSE SubSeq(s, Find(s, c) + 1, Len(s))

\* netloc.partition('[')[2].partition(']')[0]
BracketedHost(netloc) == BeforeFirst(AfterFirst(netloc, "["), "]")

HexDigits ==
    Digits \cup {"a", "b", "c", "d", "e", "f", "A", "B", "C", "D", "E", "F"}

\* re.match(r"\Av[a-fA-F0-9]+\..+\Z", hostname) for a hostname that starts
\* with 'v' (line breaks are gone from the url by then).
IPvFutureValid(h) ==
    /\ Find(h, ".") >= 3
    /\ \A j \in 2..(Find(h, ".") - 1) : h[j] \in HexDigits
    /\ Len(h) > Find(h, ".")

DigitValue(c) ==
    CASE c = "0" -> 0 [] c = "1" -> 1 [] c = "2" -> 2 [] c = "3" -> 3
      [] c = "4" -> 4 [] c = "5" -> 5 [] c = "6" -> 6 [] c = "7" -> 7
      [] c = "8" -> 8 [] c = "9" -> 9

\* int(octet_str, 10)
RECURSIVE DecimalValue(_)
DecimalValue(o) ==
    IF o = <<>> THEN 0
    ELSE 10 * DecimalValue(SubSeq(o, 1, Len(o) - 1)) + DigitValue(o[Len(o)])

\* ipaddress: _parse_octet returns
OctetValid(o) ==
    /\ o # <<>>
    /\ \A j \in 1..Len(o) : o[j] \in Digits
    /\ Len(o) <= 3
    /\ (o = <<"0">> \/ o[1] # "0")
    /\ DecimalValue(o) <= 255

\* ipaddress.IPv4Address(s) is constructed
IPv4Valid(s) ==
    /\ s # <<>>
    /\ Len(Split(s, ".")) = 4
    /\ \A i \in 1..4 : OctetValid(Split(s, ".")[i])

\* ipaddress: _parse_hextet returns (int('', 16) raises)
HextetValid(h) ==
    /\ h # <<>>
    /\ \A j \in 1..Len(h) : h[j] \in HexDigits
    /\ Len(h) <= 4

\* The positions of the empty inner parts ('::').
SkipIndexes(parts) == {i \in 2..(Len(parts) - 1) : parts[i] = <<>>}

\* _ip_int_from_string on the parts after an IPv4 tail has been replaced by
\* its two hextets: with one '::' (at position skip) or with none.
PartsValidWithSkip(parts, skip) ==
    /\ (parts[1] = <<>> => skip = 2)
    /\ (parts[Len(parts)] = <<>> => skip = Len(parts) - 1)
    /\ ((skip - 1) - (IF parts[1] = <<>> THEN 1 ELSE 0))
       + ((Len(parts) - skip) - (IF parts[Len(parts)] = <<>> THEN 1 ELSE 0)) <= 7
    /\ \A i \in 1..Len(parts) :
          (i # skip /\ ~(i = 1 /\ parts[1] = <<>>)
                    /\ ~(i = Len(parts) /\ parts[Len(parts)] = <<>>))
             => HextetValid(parts[i])

PartsValid(parts) ==
    /\ Len(parts) <= 9
    /\ Cardinality(SkipIndexes(parts)) <= 1
    /\ IF SkipIndexes(parts) # {}
       THEN PartsValidWithSkip(parts, CHOOSE i \in SkipIndexes(parts) : TRUE)
       ELSE /\ Len(parts) = 8
            /\ \A i \in 1..8 : HextetValid(parts[i])

\* parts.pop(); parts.append('%x' ...); parts.append('%x' ...)
WithoutIPv4Tail(parts) ==
    IF Has(parts[Len(parts)], ".")
    THEN SubSeq(parts, 1, Len(parts) - 1) \o << <<"0">>, <<"0">> >>
    ELSE parts

\* IPv6Address._ip_int_from_string(addr) returns
IPv6PartsValid(parts) ==
    /\ Len(parts) >= 3
    /\ (Has(parts[Len(parts)], ".") => IPv4Valid(parts[Len(parts)]))
    /\ PartsValid(WithoutIPv4Tail(parts))

\* ipaddress.IPv6Address(s) is constructed: no '/', a scope id after '%' that
\* is not empty and holds no '%', and a valid address before it.
IPv6Valid(s) ==
    /\ ~Has(s, "/")
    /\ (Has(s, "%") => AfterFirst(s, "%") # <<>> /\ ~Has(AfterFirst(s, "%"), "%"))
    /\ BeforeFirst(s, "%") # <<>>
    /\ IPv6PartsValid(Split(BeforeFirst(s, "%"), ":"))

\* _check_bracketed_host(hostname) raises
BracketedHostRaises(h) ==
    IF h # <<>> /\ h[1] = "v" THEN ~IPvFutureValid(h) ELSE ~IPv6Valid(h)

\* urlsplit raises ValueError: a netloc with one bracket and not the other,
\* or with a bracketed host that is no IPv6 or IPvFuture literal.
NetlocRaises(netloc) ==
    \/ Has(netloc, "[") # Has(netloc, "]")
    \/ /\ Has(netloc, "[") /\ Has(netloc, "]")
       /\ BracketedHostRaises(BracketedHost(netloc))

UrlParseRaises(url) == HasNetloc(url) /\ NetlocRaises(UrlNetloc(url))

\* path and query of the text after the netloc.
UrlPath(url) == BeforeFirst(AfterNetloc(url), "?")
UrlQuery(url) == AfterFirst(AfterNetloc(url), "?")

\* urlunparse for a scheme that uses a netloc.
UrlUnparse(scheme, netloc, path, query) ==
    scheme \o <<":", "/", "/">> \o netloc
    \o (IF path # <<>> /\ Head(path) # "/" THEN <<"/">> \o path ELSE path)
    \o (IF query # <<>> THEN <<"?">> \o query ELSE <<>>)

\* The dot-segment loop of urljoin.
ResolveSegment(resolved, seg) ==
    IF seg = <<".", ".">>
    THEN (IF resolved = <<>> THEN resolved ELSE SubSeq(resolved, 1, Len(resolved) - 1))
    ELSE IF seg = <<".">> THEN resolved
    ELSE Append(resolved, seg)

RECURSIVE ResolveSegments(_, _)
ResolveSegments(segments, resolved) ==
    IF segments = <<>> THEN resolved
    ELSE ResolveSegments(Tail(segments), ResolveSegment(resolved, Head(segments)))

\* segments[1:-1] = filter(None, segments[1:-1])
FilterMiddle(segments) ==
    IF Len(segments) <= 2 THEN segments
    ELSE <<segments[1]>>
         \o SelectSeq(SubSeq(segments, 2, Len(segments) - 1), LAMBDA x : x # <<>>)
         \o <<segments[Len(segments)]>>

\* bpath.split('/') without its last item when that is not a directory.
BaseParts ==
    IF Split(BasePath, "/")[Len(Split(BasePath, "/"))] # <<>>
    THEN SubSeq(Split(BasePath, "/"), 1, Len(Split(BasePath, "/")) - 1)
    ELSE Split(BasePath, "/")

\* urljoin, from the resolved segments to the joined URL.
JoinResolved(segments, resolved, query) ==
    UrlUnparse(BaseScheme, BaseNetloc,
               IF Join(IF segments[Len(segments)] \in {<<".">>, <<".", ".">>}
                       THEN Append(resolved, <<>>) ELSE resolved, <<"/">>) = <<>>
               THEN <<"/">>
               ELSE Join(IF segments[Len(segments)] \in {<<".">>, <<".", ".">>}
                         THEN Append(resolved, <<>>) ELSE resolved, <<"/">>),
               query)

JoinSegments(segments, query) ==
    JoinResolved(segments, ResolveSegments(segments, <<>>), query)

\* urljoin for a url with no scheme and no netloc of its own.
JoinPath(path, query) ==
    IF path = <<>> THEN UrlUnparse(BaseScheme, BaseNetloc, BasePath, query)
    ELSE IF Head(path) = "/" THEN JoinSegments(Split(path, "/"), query)
    ELSE JoinSegments(FilterMiddle(BaseParts \o Split(path, "/")), query)

\* urljoin(MUSIC_API_BASE_URL, url) for a non-empty url.
UrlJoin(url) ==
    IF UrlScheme(url) # <<>> /\ UrlScheme(url) # BaseScheme THEN url
    ELSE IF UrlNetloc(url) # <<>>
    THEN UrlUnparse(BaseScheme, UrlNetloc(url), UrlPath(url), UrlQuery(url))
    ELSE JoinPath(UrlPath(url), UrlQuery(url))

\* (url or "").strip()
StripOrEmpty(url) == IF url = None THEN <<>> ELSE Strip(url)

\* _normalize_music_url raises (urlparse's ValueError) instead of returning.
NormalizeRaises(url) ==
    StripOrEmpty(url) # <<>> /\ UrlParseRaises(StripOrEmpty(url))

NormalizeStripped(normalized) ==
    IF normalized = <<>> THEN <<>>
    ELSE IF UrlScheme(normalized) \in {<<"h", "t", "t", "p">>, <<"h", "t", "t", "p", "s">>}
    THEN normalized
    ELSE IF StartsWith(normalized, <<"/", "/">>)
    THEN <<"h", "t", "t", "p", "s", ":">> \o normalized
    ELSE UrlJoin(normalized)

\* _normalize_music_url when it returns.
Normalize(url) == NormalizeStripped(StripOrEmpty(url))

\* ------------------------------------------------------------------------
\* Signer and lyric URL
\* ------------------------------------------------------------------------

\* hmac.new(token, payload, sha1).hexdigest(): one opaque symbol standing for
\* the 40 hex digits, distinct for distinct (token, payload).
HmacSha1Hex(key, payload) ==
    <<"hmac-sha1(" \o Flat(key) \o "," \o Flat(payload) \o ")">>

\* _build_music_params raises RuntimeError: a signed type and no token.
BuildParamsRaises(tok, req_type) ==
    req_type \in MUSIC_SIGN_REQUIRED_TYPES /\ tok = <<>>

\* _build_music_params when it returns: the (key, value) pairs in dict order.
BuildMusicParams(tok, server, req_type, req_id) ==
    <<  <<<<"s", "e", "r", "v", "e", "r">>, server>>,
        <<<<"t", "y", "p", "e">>, req_type>>,
        <<<<"i", "d">>, req_id>> >>
    \o (IF req_type \in MUSIC_SIGN_REQUIRED_TYPES
        THEN << <<MUSIC_SIGN_PARAM, HmacSha1Hex(tok, server \o req_type \o req_id)>> >>
        ELSE <<>>)

\* urllib.parse.quote_plus on one character of the alphabet.
QuoteChar(c) ==
    CASE c = " "  -> <<"+">>
      [] c = "\t" -> <<"%", "0", "9">>
      [] c = "\n" -> <<"%", "0", "A">>
      [] c = "\r" -> <<"%", "0", "D">>
      [] c = "%"  -> <<"%", "2", "5">>
      [] c = "/"  -> <<"%", "2", "F">>
      [] c = ":"  -> <<"%", "3", "A">>
      [] c = "?"  -> <<"%", "3", "F">>
      [] c = "="  -> <<"%", "3", "D">>
      [] c = "&"  -> <<"%", "2", "6">>
      [] c = "+"  -> <<"%", "2", "B">>
      [] c = "["  -> <<"%", "5", "B">>
      [] c = "]"  -> <<"%", "5", "D">>
      [] OTHER    -> <<c>>

RECURSIVE QuotePlus(_)
QuotePlus(s) == IF s = <<>> THEN <<>> ELSE QuoteChar(Head(s)) \o QuotePlus(Tail(s))

\* urllib.parse.urlencode(params)
RECURSIVE UrlEncode(_)
UrlEncode(params) ==
    IF params = <<>> THEN <<>>
    ELSE QuotePlus(params[1][1]) \o <<"=">> \o QuotePlus(params[1][2])
         \o (IF Len(params) > 1 THEN <<"&">> \o UrlEncode(Tail(params)) ELSE <<>>)

\* Python truthiness of an optional str.
Truthy(s) == s # None /\ s # <<>>

\* _build_lyric_url(song_id, lrc)
BuildLyricUrl(tok, song_id, lrc) ==
    IF Truthy(lrc) /\ Strip(lrc) # <<>> THEN Strip(lrc)
    ELSE IF Truthy(song_id)
    THEN (IF BuildParamsRaises(tok, T_lrc) THEN <<>>
          ELSE MUSIC_API_BASE_URL \o <<"?">>
               \o UrlEncode(BuildMusicParams(tok, Netease, T_lrc, song_id)))
    ELSE <<>>

\* ------------------------------------------------------------------------
\* HTTP responses.  One record shape for every request:
\*   k       "http" (a response arrived) or "exc" (httpx raised: connection
\*           error, timeout, malformed response)
\*   status  resp.status_code
\*   url     str(resp.url), the URL after redirects
\*   loc     the Location header, None when absent
\*   raw     resp.text
\*   json    what json.loads / resp.json() makes of the body: a tag t and the
\*           parts the code reads (s: a str or a list's first str; lyric, lrc,
\*           url: fields of a dict or of a list's first dict, None when
\*           absent; items: the elements of a search result array)
\* A dict field that is present holds a str.
\* ------------------------------------------------------------------------

JsonTags == {"invalid", "str", "list_empty", "list_str", "list_dict",
             "list_other", "dict", "other", "list_items"}

Json(t, s, lyric, lrc, url, items) ==
    [t |-> t, s |-> s, lyric |-> lyric, lrc |-> lrc, url |-> url, items |-> items]

NoJson == Json("invalid", <<>>, None, None, None, <<>>)

Http(status, url, loc, raw, json) ==
    [k |-> "http", status |-> status, url |-> url, loc |-> loc, raw |-> raw,
     json |-> json]

Exc == [k |-> "exc", status |-> 0, url |-> <<>>, loc |-> None, raw |-> <<>>,
        json |-> NoJson]

NoResp == [k |-> "none", status |-> 0, url |-> <<>>, loc |-> None, raw |-> <<>>,
           json |-> NoJson]

\* dict.get(key, "") / `x or ""` on an optional str.
OrEmpty(s) == IF s = None THEN <<>> ELSE s

\* _fetch_song_url after the request: the play URL, "" on any failure.
FetchSongUrlResult(resp) ==
    IF resp.k # "http" THEN <<>>
    ELSE IF resp.status \in {301, 302, 303, 307, 308}
    THEN (IF Truthy(resp.loc) THEN Strip(resp.loc) ELSE <<>>)
    ELSE IF resp.status # 200 THEN <<>>
    ELSE CASE resp.json.t = "str" -> Strip(resp.json.s)
           [] resp.json.t = "list_str" -> Strip(resp.json.s)
           [] resp.json.t = "list_dict" -> Strip(OrEmpty(resp.json.url))
           [] OTHER -> <<>>

\* `first.get("lyric") or first.get("lrc") or ""`
LyricField(j) ==
    IF Truthy(j.lyric) THEN j.lyric ELSE IF Truthy(j.lrc) THEN j.lrc ELSE <<>>

\* _fetch_song_lyric after the request: the lyric text, "" on any failure.
LyricOfBody(raw_text, json) ==
    IF raw_text = <<>> THEN <<>>
    ELSE CASE json.t = "invalid" -> raw_text
           [] json.t = "str" -> Strip(json.s)
           [] json.t = "list_str" -> Strip(json.s)
           [] json.t = "list_dict" -> Strip(LyricField(json))
           [] json.t = "dict" -> Strip(LyricField(json))
           [] OTHER -> raw_text

FetchSongLyricResult(resp) ==
    IF resp.k # "http" THEN <<>>
    ELSE IF resp.status # 200 THEN <<>>
    ELSE LyricOfBody(Strip(resp.raw), resp.json)

\* Variant of the HEAD attempt that accepts status 200 only.
HeadStep_Only200(resp) ==
    IF resp.k = "http" /\ resp.status = 200
    THEN [do |-> "return", url |-> resp.url]
    ELSE [do |-> "fallthrough", url |-> <<>>]

\* _resolve_final_url, the HEAD attempt: "return" with the final URL on 200
\* or 206, else fall through to the streamed GET (an exception is logged).
HeadStep(resp) ==
    IF resp.k = "http" /\ resp.status \in {200, 206}
    THEN [do |-> "return", url |-> resp.url]
    ELSE [do |-> "fallthrough", url |-> <<>>]

\* Variant of the streamed GET attempt that lets a transport error escape.
GetStep_Propagates(resp, normalized_url) ==
    IF resp.k = "exc" THEN [do |-> "raise", url |-> <<>>]
    ELSE IF resp.status = 200 THEN [do |-> "return", url |-> resp.url]
    ELSE [do |-> "return", url |-> normalized_url]

\* _resolve_final_url, the streamed GET attempt and the last resort.
GetStep(resp, normalized_url) ==
    IF resp.k = "http" /\ resp.status = 200
    THEN [do |-> "return", url |-> resp.url]
    ELSE [do |-> "return", url |-> normalized_url]

\* ------------------------------------------------------------------------
\* _search_api: the loop over the response array
\* ------------------------------------------------------------------------

\* One element of the search array: ok is whether it is a JSON object; id is
\* absent, a str or an int (v holds its digits); the other fields are a str or
\* None when absent.
ItemId(t, v) == [t |-> t, v |-> v]

IdTruthy(id) ==
    \/ id.t = "str" /\ id.v # <<>>
    \/ id.t = "int" /\ id.v # <<"0">>

\* The defaults "未知歌曲" and "未知歌手", one opaque symbol each.
DefaultSongName == <<"<unknown-song>">>
DefaultArtist == <<"<unknown-artist>">>

\* item.get("title", default): the default only when the key is absent.
GetOr(v, default) == IF v = None THEN default ELSE v

\* The loop body raises: item.get on a non-dict, or urlparse's ValueError.
ItemRaises(item) ==
    \/ ~item.ok
    \/ NormalizeRaises(Strip(OrEmpty(item.url)))
    \/ NormalizeRaises(Strip(OrEmpty(item.lrc)))

\* song_entry of the loop body.
SongEntryOf(item, normalized_url, raw_lrc) ==
    [id |-> IF IdTruthy(item.id) THEN item.id ELSE ItemId("str", normalized_url),
     name |-> GetOr(item.title, DefaultSongName),
     artist |-> GetOr(item.author, DefaultArtist),
     url |-> normalized_url,
     pic |-> GetOr(item.pic, <<>>),
     lrc |-> IF raw_lrc # <<>> THEN Normalize(raw_lrc) ELSE <<>>]

SongEntry(item) ==
    SongEntryOf(item, Normalize(Strip(OrEmpty(item.url))), Strip(OrEmpty(item.lrc)))

\* Variant of the cache write that keeps an entry already stored under key.
CachePut_KeepFirst(c, key, entry) == c @@ (key :> entry)

\* _search_result_cache[key] = entry
CachePut(c, key, entry) == (key :> entry) @@ c

\* The for loop: appends each entry and caches it under str(id) when that is
\* non-empty; stops at the first element whose processing raises.
RECURSIVE SearchLoop(_, _, _)

\* Variant of the loop body that caches every entry, whatever its id.
LoopBody_AlwaysPut(items, c, results, song_entry) ==
    SearchLoop(Tail(items), CachePut(c, song_entry.id.v, song_entry),
               Append(results, song_entry))

\* Variant of the loop body that appends the entry without caching it.
LoopBody_NoCache(items, c, results, song_entry) ==
    SearchLoop(Tail(items), c, Append(results, song_entry))

LoopBody(items, c, results, song_entry) ==
    SearchLoop(Tail(items),
               IF song_entry.id.v # <<>> THEN CachePut(c, song_entry.id.v, song_entry)
               ELSE c,
               Append(results, song_entry))

SearchLoop(items, c, results) ==
    IF items = <<>> THEN [cache |-> c, results |-> results, raised |-> FALSE]
    ELSE IF ItemRaises(Head(items))
    THEN [cache |-> c, results |-> results, raised |-> TRUE]
    ELSE LoopBody(items, c, results, SongEntry(Head(items)))

\* data[:limit] for limit >= 0
Take(items, limit) ==
    SubSeq(items, 1, IF limit < Len(items) THEN limit ELSE Len(items))

\* _search_api's exit from the loop: the except branch returns [].
LoopReturn(l) ==
    [cache |-> l.cache, results |-> IF l.raised THEN <<>> ELSE l.results,
     stored |-> l.results]

\* _search_api after the request: the returned list, the cache it leaves and
\* the entries the loop built (stored) before it ended.
\* Any exception (transport, JSON, a body that is not an array, a bad
\* element) is caught and returns [] with the cache writes made so far kept.
SearchApiResult(resp, limit, c) ==
    IF resp.k # "http" \/ resp.status # 200 \/ resp.json.t # "list_items"
    THEN [cache |-> c, results |-> <<>>, stored |-> <<>>]
    ELSE LoopReturn(SearchLoop(Take(resp.json.items, limit), c, <<>>))

\* ------------------------------------------------------------------------
\* A tool invocation: its position (pc), arguments, locals, the HTTP requests
\* it has issued so far (reqs), and what it returned.
\*   pc: "idle"; "url_wait", "head_wait", "get_wait", "lyric_wait",
\*       "search_wait" (suspended at the await of that request);
\*       "progress_10" ... "progress_100" (suspended at that
\*       `await ctx.report_progress(...)`, when a ctx was passed); "finish"
\*       (about to write the playback state, lines 372-380); "done"
\*       (returned); "raised" (an exception left the tool function).
\* ------------------------------------------------------------------------

EmptyFn == [x \in {} |-> <<>>]

\* What a tool returned: a plain message, or resolve_music_url's JSON object.
NoResult ==
    [kind |-> "none", msg |-> "", song_name |-> <<>>, artist |-> <<>>,
     final_url |-> <<>>, lyric_url |-> <<>>, has_lyric |-> FALSE,
     next_tool |-> "", next_arguments |-> EmptyFn]

Message(m) == [NoResult EXCEPT !.kind = "message", !.msg = m]

NoArgs ==
    [id |-> None, song_id |-> None, song_name |-> DefaultSongName,
     artist |-> DefaultArtist, url |-> <<>>, lrc |-> <<>>, lyric |-> <<>>,
     query |-> <<>>, limit |-> 10, ctx |-> FALSE]

Idle ==
    [pc |-> "idle", tool |-> "", args |-> NoArgs, resolved_song_id |-> None,
     source_url |-> <<>>, normalized_url |-> <<>>, final_url |-> <<>>,
     effective_lrc |-> <<>>, lyric_url |-> <<>>, lyric_text |-> <<>>,
     reqs |-> <<>>, head |-> NoResp, get |-> NoResp, answer |-> NoResp,
     result |-> NoResult, results |-> <<>>]

Request(kind, target) == [kind |-> kind, target |-> target]

\* The invocation suspended at the await of a new request.
Await(r, pc, kind, target) ==
    [r EXCEPT !.pc = pc, !.reqs = Append(@, Request(kind, target))]

Return(r, result) == [r EXCEPT !.pc = "done", !.result = result]

Raise(r) == [r EXCEPT !.pc = "raised"]

\* `if ctx: await ctx.report_progress(...)`: with a ctx the invocation is
\* suspended at pc, without one it goes straight on to next.
Progress(r, pc, next) == IF r.args.ctx THEN [r EXCEPT !.pc = pc] ELSE next

ProgressPcs ==
    {"progress_10", "progress_25", "progress_55", "progress_70", "progress_80",
     "progress_100"}

WaitPcs == {"url_wait", "head_wait", "get_wait", "lyric_wait", "search_wait"}

\* Every request is made inside `async with httpx.AsyncClient(...)` (lines 90,
\* 137, 177, 246, 256) and the helper returns from inside the block, so it
\* leaves through AsyncClient.__aexit__, which awaits the close of the
\* transport.  That await suspends the invocation when the transport has a
\* connection to close: the invocation is then at the close pc of its request,
\* between what the block did and the helper's return.
ClosePc(pc) ==
    CASE pc = "url_wait" -> "url_close"
      [] pc = "head_wait" -> "head_close"
      [] pc = "get_wait" -> "get_close"
      [] pc = "lyric_wait" -> "lyric_close"
      [] pc = "search_wait" -> "search_close"

WaitPc(pc) ==
    CASE pc = "url_close" -> "url_wait"
      [] pc = "head_close" -> "head_wait"
      [] pc = "get_close" -> "get_wait"
      [] pc = "lyric_close" -> "lyric_wait"
      [] pc = "search_close" -> "search_wait"

ClosePcs == {ClosePc(pc) : pc \in WaitPcs}

\* A helper of resolve_music_url suspended in __aexit__ with the response it
\* is about to return from.
Suspended(r, resp) == [r EXCEPT !.pc = ClosePc(r.pc), !.answer = resp]

\* Lines 369-370: the report before the playback write.
BeforeWrite(r) == Progress(r, "progress_80", [r EXCEPT !.pc = "finish"])

\* str(resolved_song_id) if resolved_song_id else ""
CacheKey(resolved_song_id) ==
    IF Truthy(resolved_song_id) THEN resolved_song_id ELSE <<>>

\* resolve_music_url, lines 352-358: the lrc argument, else the cached
\* entry's lrc when the id is a key of the cache.
EffectiveLrc(lrc, resolved_song_id, c) ==
    IF /\ ~Truthy(lrc)
       /\ CacheKey(resolved_song_id) # <<>>
       /\ CacheKey(resolved_song_id) \in DOMAIN c
    THEN c[CacheKey(resolved_song_id)].lrc
    ELSE lrc

\* _fetch_song_lyric up to its await (it raises RuntimeError before any
\* request when there is no token, and then returns "").
LyricRequest(r, tok) ==
    IF BuildParamsRaises(tok, T_lrc) THEN BeforeWrite([r EXCEPT !.lyric_text = <<>>])
    ELSE Await(r, "lyric_wait", "lrc", r.resolved_song_id)

\* resolve_music_url, lines 361-370.
LyricFetchStart(r, tok) ==
    IF r.lyric_url = <<>> /\ Truthy(r.resolved_song_id)
    THEN Progress(r, "progress_70", LyricRequest(r, tok))
    ELSE BeforeWrite(r)

WithLyricUrl(r, tok, effective_lrc) ==
    LyricFetchStart([r EXCEPT !.effective_lrc = effective_lrc,
                              !.lyric_url = BuildLyricUrl(tok, r.resolved_song_id,
                                                          effective_lrc)],
                    tok)

\* resolve_music_url, lines 352-367.
LyricStart(r, tok, c) ==
    WithLyricUrl(r, tok, EffectiveLrc(r.args.lrc, r.resolved_song_id, c))

\* _resolve_final_url up to the await of the HEAD request.
ResolveFinalNormalized(r, tok, c) ==
    IF r.normalized_url = <<>>
    THEN LyricStart([r EXCEPT !.final_url = <<>>], tok, c)
    ELSE Await(r, "head_wait", "HEAD", r.normalized_url)

ResolveFinalStart(r, tok, c) ==
    IF NormalizeRaises(r.source_url) THEN Raise(r)
    ELSE ResolveFinalNormalized([r EXCEPT !.normalized_url = Normalize(r.source_url)],
                                tok, c)

\* Lines 343-345: the report, then _resolve_final_url.
ResolveFinalProgress(r, tok, c) ==
    Progress(r, "progress_55", ResolveFinalStart(r, tok, c))

\* `song_id or id`
ResolvedSongId(a) == IF Truthy(a.song_id) THEN a.song_id ELSE a.id

\* Variant of the validation that rejects only an id that is None.
InvalidReference_NoneOnly(a) == ResolvedSongId(a) = None /\ ~Truthy(a.url)

\* resolve_music_url, line 329: the reference is rejected.
InvalidReference(a) == ~Truthy(ResolvedSongId(a)) /\ ~Truthy(a.url)

MissingReference == "missing id/song_id or url"
LookupFailed == "play url lookup failed"

\* Variant of the lookup step that looks the play URL up whenever the
\* normalised url is empty, whether or not there is an id.
ResolveLookupStart_NoIdCheck(r, tok, c) ==
    IF r.source_url = <<>>
    THEN Progress(r, "progress_25",
                  IF BuildParamsRaises(tok, T_url)
                  THEN Return(r, Message(LookupFailed))
                  ELSE Await(r, "url_wait", "url", OrEmpty(r.resolved_song_id)))
    ELSE ResolveFinalProgress(r, tok, c)

\* _fetch_song_url up to its await; a RuntimeError of _build_music_params is
\* caught, "" returned and the lookup has failed (lines 340-341).
LookupRequest(r, tok) ==
    IF BuildParamsRaises(tok, T_url) THEN Return(r, Message(LookupFailed))
    ELSE Await(r, "url_wait", "url", r.resolved_song_id)

\* resolve_music_url, lines 336-345, with source_url normalised.
ResolveLookupStart(r, tok, c) ==
    IF r.source_url = <<>> /\ Truthy(r.resolved_song_id)
    THEN Progress(r, "progress_25", LookupRequest(r, tok))
    ELSE ResolveFinalProgress(r, tok, c)

\* Line 335 and on: source_url = _normalize_music_url(url).
ResolveNormalize(r, tok, c) ==
    IF NormalizeRaises(r.args.url) THEN Raise(r)
    ELSE ResolveLookupStart([r EXCEPT !.source_url = Normalize(r.args.url)], tok, c)

\* resolve_music_url from its call to its first await (or its return).
ResolveValidated(r, tok, c) ==
    IF InvalidReference(r.args) THEN Return(r, Message(MissingReference))
    ELSE Progress(r, "progress_10", ResolveNormalize(r, tok, c))

ResolveStart(r, tok, c) ==
    ResolveValidated([r EXCEPT !.resolved_song_id = ResolvedSongId(r.args)], tok, c)

\* resolve_music_url resumed after _fetch_song_url.
AfterLookup(r, source_url, tok, c) ==
    IF source_url = <<>> THEN Return(r, Message(LookupFailed))
    ELSE ResolveFinalProgress([r EXCEPT !.source_url = source_url], tok, c)

\* _resolve_final_url resumed after the HEAD, and after the streamed GET.
AfterHead(r, step, tok, c) ==
    CASE step.do = "return" -> LyricStart([r EXCEPT !.final_url = step.url], tok, c)
      [] step.do = "fallthrough" -> Await(r, "get_wait", "GET", r.normalized_url)
      [] OTHER -> Raise(r)

AfterGet(r, step, tok, c) ==
    CASE step.do = "return" -> LyricStart([r EXCEPT !.final_url = step.url], tok, c)
      [] OTHER -> Raise(r)

\* resolve_music_url resumed with the response to its pending request.
ResolveResume(r, resp, tok, c) ==
    CASE r.pc = "url_wait" -> AfterLookup(r, FetchSongUrlResult(resp), tok, c)
      [] r.pc = "head_wait" -> AfterHead([r EXCEPT !.head = resp], HeadStep(resp), tok, c)
      [] r.pc = "get_wait" ->
            AfterGet([r EXCEPT !.get = resp], GetStep(resp, r.normalized_url), tok, c)
      [] r.pc = "lyric_wait" ->
            BeforeWrite([r EXCEPT !.lyric_text = FetchSongLyricResult(resp)])

\* resolve_music_url resumed from the __aexit__ of its helper's client: the
\* helper returns and the tool runs on.
ResolveClosed(r, tok, c) ==
    ResolveResume([r EXCEPT !.pc = WaitPc(r.pc), !.answer = NoResp], r.answer, tok, c)

\* next_args, lines 386-395
NextArguments(r) ==
    (IF r.lyric_url # <<>> THEN ("lyric_url" :> r.lyric_url)
     ELSE IF r.lyric_text # <<>> THEN ("lyric" :> r.lyric_text)
     ELSE EmptyFn)
    @@ ("url" :> r.final_url) @@ ("title" :> r.args.song_name)
    @@ ("artist" :> r.args.artist)

\* Variant of has_lyric that looks at the lyric text only.
HasLyric_TextOnly(r) == r.lyric_text # <<>>

\* has_lyric, line 397
HasLyric(r) == r.lyric_url # <<>> \/ r.lyric_text # <<>>

\* The JSON object resolve_music_url returns, lines 398-407.
Structured(r) ==
    [kind |-> "json", msg |-> "", song_name |-> r.args.song_name,
     artist |-> r.args.artist, final_url |-> r.final_url,
     lyric_url |-> r.lyric_url, has_lyric |-> HasLyric(r),
     next_tool |-> "self.music.play_url", next_arguments |-> NextArguments(r)]

\* playback_state["current_song"], lines 372-379; NoSong is None.
NoSong ==
    [id |-> None, name |-> <<>>, artist |-> <<>>, url |-> <<>>,
     source_url |-> None, lyric_url |-> None]

\* Variant of the record written to current_song that stores the unresolved
\* source URL as the song's url.
CurrentSong_SourceUrl(r) ==
    [id |-> IF Truthy(r.resolved_song_id) THEN r.resolved_song_id ELSE r.source_url,
     name |-> r.args.song_name, artist |-> r.args.artist, url |-> r.source_url,
     source_url |-> r.source_url, lyric_url |-> r.lyric_url]

CurrentSong(r) ==
    [id |-> IF Truthy(r.resolved_song_id) THEN r.resolved_song_id ELSE r.source_url,
     name |-> r.args.song_name, artist |-> r.args.artist, url |-> r.final_url,
     source_url |-> r.source_url, lyric_url |-> r.lyric_url]

\* Lines 382-415 after the playback write: the last report, then the return.
AfterWrite(r) == Progress(r, "progress_100", Return(r, Structured(r)))

\* resolve_music_url resumed when the report_progress it awaits returns.
ProgressResume(r, tok, c) ==
    CASE r.pc = "progress_10" -> ResolveNormalize(r, tok, c)
      [] r.pc = "progress_25" -> LookupRequest(r, tok)
      [] r.pc = "progress_55" -> ResolveFinalStart(r, tok, c)
      [] r.pc = "progress_70" -> LyricRequest(r, tok)
      [] r.pc = "progress_80" -> [r EXCEPT !.pc = "finish"]
      [] r.pc = "progress_100" -> Return(r, Structured(r))

\* ------------------------------------------------------------------------
\* Inputs: tool arguments and upstream responses
\* ------------------------------------------------------------------------

U_h == <<"h", "t", "t", "p", ":", "/", "/", "h", "/", "a">>
U_rel == <<" ", "a", " ">>
U_bad == <<"h", "t", "t", "p", ":", "/", "/", "[">>
U_f == <<"h", "t", "t", "p", ":", "/", "/", "c", "/", "f">>
U_g == <<"h", "t", "t", "p", ":", "/", "/", "c", "/", "g">>
U_l3 == <<"h", "t", "t", "p", ":", "/", "/", "l", "/", "3">>
LrcText == <<"[", "0", "0", ":", "0", "1", "]", "l", "a">>

Args(id, song_id, url, lrc, lyric) ==
    [NoArgs EXCEPT !.id = id, !.song_id = song_id, !.url = url, !.lrc = lrc,
                   !.lyric = lyric, !.song_name = <<"n">>, !.artist = <<"r">>]

\* Calls of resolve_music_url: no reference, an empty id, an id alone, a url
\* alone (absolute, relative, blank, malformed), both, song_id beside id, and
\* an id and url with a lyric URL, a blank lyric URL or a lyric text.
ResolveReferences ==
    { Args(None, None, <<>>, <<>>, <<>>),
      Args(<<>>, None, <<>>, <<>>, <<>>),
      Args(<<"7">>, None, <<>>, <<>>, <<>>),
      Args(<<"7">>, None, <<" ">>, <<>>, <<>>),
      Args(None, None, U_h, <<>>, <<>>),
      Args(None, None, U_rel, <<>>, <<>>),
      Args(None, None, <<" ">>, <<>>, <<>>),
      Args(None, None, U_bad, <<>>, <<>>),
      Args(<<"7">>, None, U_h, <<>>, <<>>),
      Args(<<"7">>, <<"8">>, U_h, <<>>, <<>>),
      Args(<<"7">>, None, U_h, <<" ", "l", " ">>, <<>>),
      Args(<<"7">>, None, U_h, <<" ">>, <<>>),
      Args(<<"7">>, None, U_h, <<>>, LrcText) }

\* Each of them called without and with a ctx.
ResolveArgs == {[a EXCEPT !.ctx = x] : a \in ResolveReferences, x \in BOOLEAN}

SearchArgs ==
    {[NoArgs EXCEPT !.query = <<"q">>, !.limit = n] : n \in {1, 10}}

Item(id, url, lrc) ==
    [ok |-> TRUE, id |-> id, title |-> None, author |-> None, pic |-> None,
     url |-> url, lrc |-> lrc]

BadItem == [Item(ItemId("absent", <<>>), None, None) EXCEPT !.ok = FALSE]

\* Arrays the search endpoint may answer with.
SearchArrays ==
    { << Item(ItemId("str", <<"7">>), U_h, <<" ", "l", "1">>) >>,
      << Item(ItemId("int", <<"7">>), <<"/", "a">>, None) >>,
      << Item(ItemId("absent", <<>>), U_h, <<"/", "/", "l", "/", "2">>), BadItem >>,
      << Item(ItemId("str", <<"7">>), U_h, U_l3),
         Item(ItemId("str", <<"7">>), U_f, <<>>) >>,
      << Item(ItemId("absent", <<>>), None, None) >> }

\* What the network may answer to a request of each kind.
Outcomes(kind, target) ==
    CASE kind = "url" ->
            { Exc,
              Http(302, <<>>, U_f \o <<" ">>, <<>>, NoJson),
              Http(302, <<>>, None, <<>>, NoJson),
              Http(302, <<>>, U_bad, <<>>, NoJson),
              Http(200, <<>>, None, <<>>, Json("str", <<"a">>, None, None, None, <<>>)),
              Http(200, <<>>, None, <<>>, Json("list_dict", <<>>, None, None, U_f, <<>>)),
              Http(200, <<>>, None, <<>>, Json("list_empty", <<>>, None, None, None, <<>>)),
              Http(404, <<>>, None, <<>>, NoJson) }
      [] kind = "HEAD" ->
            { Exc,
              Http(200, target, None, <<>>, NoJson),
              Http(206, U_g, None, <<>>, NoJson),
              Http(405, target, None, <<>>, NoJson) }
      [] kind = "GET" ->
            { Exc,
              Http(200, U_g, None, <<>>, NoJson),
              Http(206, target, None, <<>>, NoJson),
              Http(404, target, None, <<>>, NoJson) }
      [] kind = "lrc" ->
            { Exc,
              Http(200, <<>>, None, LrcText, NoJson),
              Http(200, <<>>, None, <<"{", "}">>,
                   Json("dict", <<>>, None, LrcText, None, <<>>)),
              Http(200, <<>>, None, <<" ">>, NoJson),
              Http(404, <<>>, None, <<>>, NoJson) }
      [] kind = "search" ->
            { Exc,
              Http(500, <<>>, None, <<>>, NoJson),
              Http(200, <<>>, None, <<>>, Json("dict", <<>>, None, None, None, <<>>)) }
            \cup { Http(200, <<>>, None, <<>>,
                        Json("list_items", <<>>, None, None, None, items)) :
                   items \in SearchArrays }

\* ------------------------------------------------------------------------
\* The state machine
\* ------------------------------------------------------------------------

NoPrev == [on |-> FALSE, ctx |-> FALSE, result |-> NoResult, cache |-> EmptyFn]

Init ==
    /\ \E env \in {<<>>, <<" ">>, <<"S", " ">>} : token = Strip(env)
    /\ cache = EmptyFn
    /\ playback = [current_song |-> NoSong, playlist |-> <<>>, is_playing |-> FALSE]
    /\ inv = Idle
    /\ memo = EmptyFn
    /\ prev = NoPrev
    /\ latest_lrc = EmptyFn
    /\ visited = <<>>
    /\ tasks = <<>>

\* Variant of the tail of resolve_music_url that also consumes (pops) the
\* cached search entry of the song it has resolved.
Commit_Evicts(r, c) ==
    /\ inv' = IF r.pc = "finish" THEN AfterWrite(r) ELSE r
    /\ playback' = IF r.pc = "finish"
                   THEN [playback EXCEPT !.current_song = CurrentSong(r),
                                         !.is_playing = FALSE]
                   ELSE playback
    /\ cache' = IF r.pc = "finish"
                THEN [k \in DOMAIN c \ {CacheKey(r.resolved_song_id)} |-> c[k]]
                ELSE c

\* No tool call is in flight: the client calls the tools one after another.
Quiet == inv.pc \in {"idle", "done", "raised"}

\* The invocation has run on to its next await; at "finish" it writes the
\* playback state (lines 372-380) and goes on to the last report or the
\* return.  c is the search-result cache the step leaves.
Commit(r, c) ==
    /\ inv' = IF r.pc = "finish" THEN AfterWrite(r) ELSE r
    /\ playback' = IF r.pc = "finish"
                   THEN [playback EXCEPT !.current_song = CurrentSong(r),
                                         !.is_playing = FALSE]
                   ELSE playback
    /\ cache' = c

\* A call of resolve_music_url.  keep: the call gives the song reference of
\* the resolve that has just returned (with or without a ctx) while the
\* upstream is unchanged (its earlier answers stand).
ResolveCall(a, keep) ==
    /\ Quiet
    /\ keep => /\ inv.pc = "done" /\ inv.tool = "resolve"
               /\ [inv.args EXCEPT !.ctx = a.ctx] = a
    /\ memo' = IF keep THEN memo ELSE EmptyFn
    /\ prev' = IF keep
               THEN [on |-> TRUE, ctx |-> inv.args.ctx, result |-> inv.result,
                     cache |-> cache]
               ELSE NoPrev
    /\ Commit(ResolveStart([Idle EXCEPT !.tool = "resolve", !.args = a], token, cache),
              cache)
    /\ visited' = <<>>
    /\ UNCHANGED <<token, latest_lrc, tasks>>

SearchNotFound == "no music found"
SearchListing == "search results"

\* search_music_pro from _search_api's return: the formatted text.
SearchResume(r, results) ==
    [Return(r, Message(IF results = <<>> THEN SearchNotFound ELSE SearchListing))
        EXCEPT !.results = results]

\* _search_api suspended in __aexit__ (line 90) after its loop: the cache is
\* written (line 121), `return results` (line 122) is still to come.
SearchSuspended(r, results) == [r EXCEPT !.pc = "search_close", !.results = results]

\* The invocation resumed from __aexit__.
CloseResume(r, tok, c) ==
    IF r.tool = "search" THEN SearchResume(r, r.results) ELSE ResolveClosed(r, tok, c)

\* _search_api up to the await of its request; a RuntimeError of
\* _build_music_params is caught and returns [].
SearchStart(r, tok) ==
    IF BuildParamsRaises(tok, T_search) THEN SearchResume(r, <<>>)
    ELSE Await(r, "search_wait", "search", r.args.query)

\* A call of search_music_pro.
SearchCall(a) ==
    /\ Quiet
    /\ memo' = EmptyFn
    /\ prev' = NoPrev
    /\ Commit(SearchStart([Idle EXCEPT !.tool = "search", !.args = a], token), cache)
    /\ visited' = <<>>
    /\ UNCHANGED <<token, latest_lrc, tasks>>

\* History of the searches: for each str(id), the lrc of the entry that the
\* search loop stored last (entries in the order the loop built them).
RECURSIVE LatestLrc(_, _)
LatestLrc(entries, old) ==
    IF entries = <<>> THEN old
    ELSE LatestLrc(Tail(entries),
                   IF Head(entries).id.v # <<>>
                   THEN (Head(entries).id.v :> Head(entries).lrc) @@ old
                   ELSE old)

\* The request the invocation is suspended at.
Pending(r) == r.reqs[Len(r.reqs)]

\* The pending HTTP request completes.  An answer the upstream has already
\* given to the same request while unchanged is given again.  The invocation
\* works the answer off inside the `async with` block (the search loop writes
\* the cache there) and leaves the block: suspends tells whether __aexit__
\* suspends it before the helper returns.
Respond(resp, suspends) ==
    /\ inv.pc \in WaitPcs
    /\ resp \in Outcomes(Pending(inv).kind, Pending(inv).target)
    /\ <<Pending(inv).kind, Pending(inv).target>> \in DOMAIN memo
          => resp = memo[<<Pending(inv).kind, Pending(inv).target>>]
    /\ memo' = (<<Pending(inv).kind, Pending(inv).target>> :> resp) @@ memo
    /\ IF inv.tool = "search"
       THEN Commit(IF suspends
                   THEN SearchSuspended(inv,
                            SearchApiResult(resp, inv.args.limit, cache).results)
                   ELSE SearchResume(inv,
                            SearchApiResult(resp, inv.args.limit, cache).results),
                   SearchApiResult(resp, inv.args.limit, cache).cache)
       ELSE Commit(IF suspends THEN Suspended(inv, resp)
                   ELSE ResolveResume(inv, resp, token, cache),
                   cache)
    /\ latest_lrc' = IF inv.tool = "search"
                     THEN LatestLrc(SearchApiResult(resp, inv.args.limit, cache).stored,
                                    latest_lrc)
                     ELSE latest_lrc
    /\ visited' = <<>>
    /\ UNCHANGED <<token, prev, tasks>>

\* The report_progress the invocation awaits returns.
ProgressReturns ==
    /\ inv.pc \in ProgressPcs
    /\ Commit(ProgressResume(inv, token, cache), cache)
    /\ visited' = <<>>
    /\ UNCHANGED <<token, memo, prev, latest_lrc, tasks>>

\* The __aexit__ the invocation is suspended in returns.
CloseReturns ==
    /\ inv.pc \in ClosePcs
    /\ Commit(CloseResume(inv, token, cache), cache)
    /\ visited' = <<>>
    /\ UNCHANGED <<token, memo, prev, latest_lrc, tasks>>

AllResponses ==
    UNION {Outcomes(k, t) : k \in {"url", "lrc", "search"}, t \in {<<>>}}
    \cup UNION {Outcomes(k, t) : k \in {"HEAD", "GET"},
                t \in {U_h, U_f, Normalize(U_rel), Normalize(<<"a">>)}}

\* stop_music
StopMusic ==
    /\ Quiet
    /\ playback' = [playback EXCEPT !.is_playing = FALSE, !.current_song = NoSong]
    /\ visited' = <<>>
    /\ UNCHANGED <<token, cache, inv, memo, prev, latest_lrc, tasks>>

Next ==
    \/ \E a \in ResolveArgs, keep \in BOOLEAN : ResolveCall(a, keep)
    \/ \E a \in SearchArgs : SearchCall(a)
    \/ \E resp \in AllResponses, suspends \in BOOLEAN : Respond(resp, suspends)
    \/ CloseReturns
    \/ ProgressReturns
    \/ StopMusic

Spec == Init /\ [][Next]_vars

\* ------------------------------------------------------------------------
\* Playlist tools.  They contain no await: each call is one step.
\* ------------------------------------------------------------------------

MaxPlaylist == 3

\* song of add_to_playlist
Song(song_id, song_name, artist, url) ==
    [id |-> song_id, name |-> song_name, artist |-> artist, url |-> url]

PlaylistSongs ==
    { Song(<<"7">>, <<"n">>, <<"r">>, U_h), Song(<<"8">>, <<"m">>, <<"r">>, U_f) }

\* Variant of the append that replaces the list by the new song.
Appended_Overwrites(pb, song) == [pb EXCEPT !.playlist = <<song>>]

\* playback_state["playlist"].append(song)
Appended(pb, song) == [pb EXCEPT !.playlist = Append(@, song)]

\* playback_state["playlist"] = []
Cleared(pb) == [pb EXCEPT !.playlist = <<>>]

\* stop_music's two writes
Stopped(pb) == [pb EXCEPT !.is_playing = FALSE, !.current_song = NoSong]

\* The for loop of next_song / previous_song: the (1-based) position of the
\* first playlist entry whose id is the current song's, 0 when there is none
\* or no current song.
RECURSIVE FirstWithId(_, _, _)
FirstWithId(playlist, id, i) ==
    IF i > Len(playlist) THEN 0
    ELSE IF playlist[i].id = id THEN i
    ELSE FirstWithId(playlist, id, i + 1)

CurrentIndex(pb) ==
    IF pb.current_song = NoSong THEN 0
    ELSE FirstWithId(pb.playlist, pb.current_song.id, 1)

\* next_index and prev_index, 1-based.
NextIndexOf(i, n) == IF i = 0 THEN 1 ELSE (i % n) + 1
PrevIndexOf(i, n) == IF i = 0 THEN n ELSE ((i - 2 + n) % n) + 1

NextIndex(pb) == NextIndexOf(CurrentIndex(pb), Len(pb.playlist))
PrevIndex(pb) == PrevIndexOf(CurrentIndex(pb), Len(pb.playlist))

\* The writes of next_song / previous_song with the chosen position.
Selected(pb, i) ==
    [pb EXCEPT !.current_song = pb.playlist[i], !.is_playing = TRUE]

NextSongState(pb) == IF pb.playlist = <<>> THEN pb ELSE Selected(pb, NextIndex(pb))
PreviousSongState(pb) == IF pb.playlist = <<>> THEN pb ELSE Selected(pb, PrevIndex(pb))

\* add_to_playlist (the model stops adding at MaxPlaylist entries)
AddToPlaylist(song) ==
    /\ Quiet
    /\ Len(playback.playlist) < MaxPlaylist
    /\ playback' = Appended(playback, song)
    /\ visited' = <<>>
    /\ UNCHANGED <<token, cache, inv, memo, prev, latest_lrc, tasks>>

\* get_playlist: reads the playlist only.
GetPlaylist ==
    /\ Quiet
    /\ visited' = <<>>
    /\ UNCHANGED <<token, cache, playback, inv, memo, prev, latest_lrc, tasks>>

\* clear_playlist
ClearPlaylist ==
    /\ Quiet
    /\ playback' = Cleared(playback)
    /\ visited' = <<>>
    /\ UNCHANGED <<token, cache, inv, memo, prev, latest_lrc, tasks>>

\* next_song; visited records what the calls of an uninterrupted run of
\* next_song calls selected, up to as many calls as the playlist has entries.
NextSong ==
    /\ Quiet
    /\ playback' = NextSongState(playback)
    /\ visited' = IF playback.playlist # <<>> /\ Len(visited) < Len(playback.playlist)
                  THEN Append(visited, playback'.current_song)
                  ELSE visited
    /\ UNCHANGED <<token, cache, inv, memo, prev, latest_lrc, tasks>>

\* previous_song
PreviousSong ==
    /\ Quiet
    /\ playback' = PreviousSongState(playback)
    /\ visited' = <<>>
    /\ UNCHANGED <<token, cache, inv, memo, prev, latest_lrc, tasks>>

\* The playback and playlist tools called one after another.
NextPlaylist ==
    \/ \E song \in PlaylistSongs : AddToPlaylist(song)
    \/ GetPlaylist
    \/ ClearPlaylist
    \/ NextSong
    \/ PreviousSong
    \/ StopMusic

SpecPlaylist == Init /\ [][NextPlaylist]_vars

\* ------------------------------------------------------------------------
\* The whole tool surface called one tool after another: resolve and search
\* beside the playlist tools, on a few references and one playlist song.
\* ------------------------------------------------------------------------

ServerResolveArgs ==
    { Args(None, None, <<>>, <<>>, <<>>),
      Args(<<"7">>, None, <<>>, <<>>, <<>>),
      Args(<<"7">>, None, U_h, <<>>, <<>>),
      [Args(<<"7">>, None, U_h, <<>>, <<>>) EXCEPT !.ctx = TRUE] }

ServerSearchArgs == {[NoArgs EXCEPT !.query = <<"q">>, !.limit = 10]}

ServerSongs == {Song(<<"7">>, <<"n">>, <<"r">>, U_h)}

NextServer ==
    \/ \E a \in ServerResolveArgs : ResolveCall(a, FALSE)
    \/ \E a \in ServerSearchArgs : SearchCall(a)
    \/ \E resp \in AllResponses, suspends \in BOOLEAN : Respond(resp, suspends)
    \/ CloseReturns
    \/ ProgressReturns
    \/ StopMusic
    \/ \E song \in ServerSongs : AddToPlaylist(song)
    \/ ClearPlaylist
    \/ NextSong

SpecServer == Init /\ [][NextServer]_vars

\* ------------------------------------------------------------------------
\* Concurrent tool invocations.  Every call is a task of the one event loop:
\* it runs without interruption from its start, or from the completion of the
\* request it awaits, to its next await or its return, and the tasks'
\* steps interleave freely.  tasks holds one record per call, in call order.
\* ------------------------------------------------------------------------

MaxTasks == 3

\* A call: its invocation r and, for a playlist tool, the song it added or
\* selected.
Task(r, song) == [r |-> r, song |-> song]

\* A call of a tool without an await, which has returned.
Atomic(tool) == [Idle EXCEPT !.tool = tool, !.pc = "done"]

\* Variant of the current_song write that updates the stored record field
\* by field and keeps a stored lyric_url when the new one is empty.
Written_Merges(pb, r) ==
    [pb EXCEPT !.current_song =
                   [CurrentSong(r) EXCEPT !.lyric_url =
                        IF r.lyric_url = <<>> /\ pb.current_song # NoSong
                           /\ "lyric_url" \in DOMAIN pb.current_song
                        THEN pb.current_song.lyric_url ELSE r.lyric_url],
               !.is_playing = FALSE]

\* The two assignments of lines 372-380.
Written(pb, r) ==
    [pb EXCEPT !.current_song = CurrentSong(r), !.is_playing = FALSE]

\* The invocation after its step: at "finish" it writes the playback state
\* and goes on to the last report or the return.
Finished(r) == IF r.pc = "finish" THEN AfterWrite(r) ELSE r
AfterStep(pb, r) == IF r.pc = "finish" THEN Written(pb, r) ELSE pb

TaskResolveArgs ==
    { Args(<<"7">>, None, <<>>, <<>>, <<>>),
      Args(None, None, U_h, <<>>, <<>>),
      [Args(None, None, U_h, <<>>, <<>>) EXCEPT !.ctx = TRUE],
      [Args(<<"8">>, None, U_f, <<" ", "l", " ">>, <<>>) EXCEPT !.ctx = TRUE] }

TaskSongs == {Song(<<"7">>, <<"n">>, <<"r">>, U_h)}

\* The first step of a call of resolve_music_url or search_music_pro.
TaskStart(r) ==
    /\ Len(tasks) < MaxTasks
    /\ tasks' = Append(tasks, Task(Finished(r), NoSong))
    /\ playback' = AfterStep(playback, r)
    /\ UNCHANGED <<token, cache, inv, memo, prev, latest_lrc, visited>>

TaskResolve(a) ==
    TaskStart(ResolveStart([Idle EXCEPT !.tool = "resolve", !.args = a], token, cache))

TaskSearch(a) ==
    TaskStart(SearchStart([Idle EXCEPT !.tool = "search", !.args = a], token))

\* A resumed invocation r of task i, leaving the search-result cache c.
TaskStep(i, r, c) ==
    /\ tasks' = [tasks EXCEPT ![i] = Task(Finished(r), NoSong)]
    /\ playback' = AfterStep(playback, r)
    /\ cache' = c
    /\ UNCHANGED <<token, inv, memo, prev, latest_lrc, visited>>

TaskWaiting(i) == tasks[i].r.pc \in WaitPcs

\* The answers the concurrent runs draw from: for each kind of request one
\* that succeeds and one that fails.
TaskAnswer(kind, resp) ==
    CASE kind = "url" -> resp.status = 404 \/ resp.loc = U_f \o <<" ">>
      [] kind = "HEAD" -> resp.status \in {200, 405}
      [] kind = "GET" -> resp.k = "exc" \/ resp.status = 200
      [] kind = "lrc" -> resp.k = "exc" \/ resp.raw = LrcText
      [] kind = "search" ->
            \/ resp.k = "exc"
            \/ /\ resp.json.t = "list_items"
               /\ \A k \in 1..Len(resp.json.items) :
                      resp.json.items[k].ok /\ resp.json.items[k].id.t = "str"

\* The request task i awaits completes and the task runs on, to the __aexit__
\* of the request's client when that suspends it.
TaskRespond(i, resp, suspends) ==
    /\ i \in 1..Len(tasks)
    /\ TaskWaiting(i)
    /\ resp \in Outcomes(Pending(tasks[i].r).kind, Pending(tasks[i].r).target)
    /\ TaskAnswer(Pending(tasks[i].r).kind, resp)
    /\ IF tasks[i].r.tool = "search"
       THEN TaskStep(i,
                     IF suspends
                     THEN SearchSuspended(tasks[i].r,
                              SearchApiResult(resp, tasks[i].r.args.limit, cache).results)
                     ELSE SearchResume(tasks[i].r,
                              SearchApiResult(resp, tasks[i].r.args.limit, cache).results),
                     SearchApiResult(resp, tasks[i].r.args.limit, cache).cache)
       ELSE TaskStep(i,
                     IF suspends THEN Suspended(tasks[i].r, resp)
                     ELSE ResolveResume(tasks[i].r, resp, token, cache),
                     cache)

\* The __aexit__ task i is suspended in returns and the task runs on.
TaskClose(i) ==
    /\ i \in 1..Len(tasks)
    /\ tasks[i].r.pc \in ClosePcs
    /\ TaskStep(i, CloseResume(tasks[i].r, token, cache), cache)

\* The report_progress task i awaits returns and the task runs on.
TaskProgress(i) ==
    /\ i \in 1..Len(tasks)
    /\ tasks[i].r.pc \in ProgressPcs
    /\ TaskStep(i, ProgressResume(tasks[i].r, token, cache), cache)

\* A call of a tool without an await: one step that leaves playback state pb.
TaskAtomic(tool, song, pb) ==
    /\ Len(tasks) < MaxTasks
    /\ tasks' = Append(tasks, Task(Atomic(tool), song))
    /\ playback' = pb
    /\ UNCHANGED <<token, cache, inv, memo, prev, latest_lrc, visited>>

TaskStop == TaskAtomic("stop_music", NoSong, Stopped(playback))

TaskAdd(song) == TaskAtomic("add_to_playlist", song, Appended(playback, song))

TaskGet == TaskAtomic("get_playlist", NoSong, playback)

TaskClear == TaskAtomic("clear_playlist", NoSong, Cleared(playback))

\* The song a next_song / previous_song call selected, pb being the state it
\* left: none when the playlist is empty (the early return of lines 463-464
\* and 484-485), else the playlist entry it made current.
SelectedSong(pb) == IF pb.playlist = <<>> THEN NoSong ELSE pb.current_song

TaskNext ==
    TaskAtomic("next_song", SelectedSong(NextSongState(playback)),
               NextSongState(playback))

TaskPrevious ==
    TaskAtomic("previous_song", SelectedSong(PreviousSongState(playback)),
               PreviousSongState(playback))

NextTasks ==
    \/ \E a \in TaskResolveArgs : TaskResolve(a)
    \/ \E a \in ServerSearchArgs : TaskSearch(a)
    \/ \E i \in 1..MaxTasks, resp \in AllResponses, suspends \in BOOLEAN :
            TaskRespond(i, resp, suspends)
    \/ \E i \in 1..MaxTasks : TaskClose(i)
    \/ \E i \in 1..MaxTasks : TaskProgress(i)
    \/ TaskStop
    \/ \E song \in TaskSongs : TaskAdd(song)
    \/ TaskGet
    \/ TaskClear
    \/ TaskNext
    \/ TaskPrevious

SpecTasks == Init /\ [][NextTasks]_vars

\* ------------------------------------------------------------------------
\* _normalize_music_url on its own: the normaliser applied to every short
\* string over a URL alphabet and to some longer URLs, directly and through
\* the search loop (url and lrc of an item).
\* ------------------------------------------------------------------------

MaxUrlLen == 3

UrlAlphabet == {"a", ":", "/", " ", "?", "[", "]", ".", "\t"}

U_ftp == <<"f", "t", "p", ":", "/", "/", "h", "/", "a">>

NormalizeInputs ==
    UNION {[1..n -> UrlAlphabet] : n \in 0..MaxUrlLen}
    \cup { U_h, U_rel, U_bad, U_ftp,
           <<"H", "T", "T", "P", ":", "/", "/", "h">>,
           <<"h", "t", "t", "p", "s", ":", "/", "/", "h">>,
           <<"/", "/", "h", "/", "p">>,
           <<"/", "a", "p", "i", "?", "x">>,
           <<"m", "a", "i", "l", "t", "o", ":", "a">>,
           <<"h", "t", "\t", "t", "p", ":", "/", "/", "x">>,
           <<"/", "/", "[", ":", ":", "1", "]", "/", "a">>,
           <<"/", "/", "[", "v", "1", ".", "a", "]">>,
           <<"h", "t", "t", "p", ":", "/", "/", "[", "a", "]", "/">> }

InitNormalize ==
    /\ token = <<>>
    /\ cache = EmptyFn
    /\ playback = [current_song |-> NoSong, playlist |-> <<>>, is_playing |-> FALSE]
    /\ \E url \in NormalizeInputs :
          inv = [Idle EXCEPT !.tool = "normalize", !.args.url = url]
    /\ memo = EmptyFn
    /\ prev = NoPrev
    /\ latest_lrc = EmptyFn
    /\ visited = <<>>
    /\ tasks = <<>>

\* _normalize_music_url(url): returns, or raises urlparse's ValueError.
NormalizeCall ==
    /\ inv.tool = "normalize" /\ inv.pc = "idle"
    /\ inv' = IF NormalizeRaises(inv.args.url) THEN Raise(inv)
              ELSE [inv EXCEPT !.pc = "done",
                               !.normalized_url = Normalize(inv.args.url)]
    /\ UNCHANGED <<token, cache, playback, memo, prev, latest_lrc, visited, tasks>>

\* The search loop on a one-item array whose url and lrc are the input.
ItemArray(url) ==
    Http(200, <<>>, None, <<>>,
         Json("list_items", <<>>, None, None, None,
              << Item(ItemId("str", <<"7">>), url, url) >>))

NormalizeItem ==
    /\ inv.tool = "normalize" /\ inv.pc = "idle"
    /\ inv' = [inv EXCEPT !.pc = "done", !.tool = "normalize_item",
                          !.results = SearchApiResult(ItemArray(inv.args.url), 10,
                                                      cache).results]
    /\ cache' = SearchApiResult(ItemArray(inv.args.url), 10, cache).cache
    /\ UNCHANGED <<token, playback, memo, prev, latest_lrc, visited, tasks>>

NextNormalize == NormalizeCall \/ NormalizeItem

SpecNormalize == InitNormalize /\ [][NextNormalize]_vars

\* ------------------------------------------------------------------------
\* Properties
\* ------------------------------------------------------------------------

\* resolve_music_url has returned / has returned its JSON object.
ResolveDone == inv.tool = "resolve" /\ inv.pc = "done"
JsonDone == ResolveDone /\ inv.result.kind = "json"

\* The invocation in flight has issued a request of this kind.
HasReq(kind) == \E i \in 1..Len(inv.reqs) : inv.reqs[i].kind = kind

\* The HEAD of the invocation in flight completed with status 200 or 206.
HeadYielded == inv.head.k = "http" /\ inv.head.status \in {200, 206}

\* C1: when the HEAD request completes with status 200 or 206, the resolved
\* URL is the final URL of the HEAD response and the invocation issues no GET;
\* every GET follows a HEAD on the same URL that was attempted and did not
\* yield 200/206.
C1_HeadFirst ==
    inv.tool = "resolve" =>
        /\ HeadYielded =>
              /\ ~HasReq("GET")
              /\ inv.pc = "done" =>
                    inv.result.kind = "json" /\ inv.result.final_url = inv.head.url
        /\ \A i \in 1..Len(inv.reqs) :
              inv.reqs[i].kind = "GET" =>
                  /\ i > 1
                  /\ inv.reqs[i - 1] = Request("HEAD", inv.reqs[i].target)
                  /\ inv.head.k # "none"
                  /\ ~HeadYielded

C1_Witness ==
    /\ JsonDone
    /\ inv.head.k = "http" /\ inv.head.status = 206 /\ inv.head.url = U_g
    /\ inv.result.final_url = U_g
    /\ inv.reqs[Len(inv.reqs)].kind = "HEAD"

\* C2: once the HEAD has been attempted the resolver never raises, whatever
\* the HEAD and the GET answer; after a failed HEAD the resolved URL is the
\* GET's final URL when the GET returns 200, and otherwise exactly the
\* normalized input URL.
C2_GetThenRawUrl ==
    (inv.tool = "resolve" /\ inv.head.k # "none") =>
        /\ inv.pc # "raised"
        /\ (inv.get.k # "none" /\ inv.pc = "done") =>
              /\ inv.result.kind = "json"
              /\ inv.result.final_url =
                    IF inv.get.k = "http" /\ inv.get.status = 200
                    THEN inv.get.url
                    ELSE Normalize(inv.source_url)

C2_Witness ==
    /\ JsonDone
    /\ inv.args.url = U_rel
    /\ inv.head.k = "exc" /\ inv.get.k = "exc"
    /\ inv.result.final_url = Normalize(U_rel)

\* C3: when the latest search entry stored for an id has a non-empty lyric
\* URL L, a resolve of that id called without an lrc argument returns
\* lyric_url = L, with or without a signing secret, and fetches no lyric text.
C3_CachedLyricUrlUsed ==
    (/\ JsonDone
     /\ inv.args.lrc = <<>>
     /\ CacheKey(ResolvedSongId(inv.args)) \in DOMAIN latest_lrc
     /\ latest_lrc[CacheKey(ResolvedSongId(inv.args))] # <<>>) =>
        /\ inv.result.lyric_url = latest_lrc[CacheKey(ResolvedSongId(inv.args))]
        /\ ~HasReq("lrc")
        /\ "lyric" \notin DOMAIN inv.result.next_arguments

C3_Witness ==
    /\ JsonDone
    /\ token = <<>>
    /\ inv.args.id = <<"7">> /\ inv.args.lrc = <<>>
    /\ <<"7">> \in DOMAIN latest_lrc
    /\ latest_lrc[<<"7">>] = U_l3
    /\ inv.result.lyric_url = U_l3

\* C4: the lyric source of a successful resolve is chosen by strict priority:
\* the caller's lyric URL (lrc) or lyric text (lyric), then the cached search
\* entry's lyric URL, then the constructed signed lyric URL, then a direct
\* lyric text fetch; the first source that yields a non-empty value wins.
C4_StrictPriority ==
    JsonDone =>
        IF Strip(inv.args.lrc) # <<>>
        THEN inv.result.lyric_url = Strip(inv.args.lrc)
        ELSE IF inv.args.lyric # <<>>
        THEN /\ "lyric" \in DOMAIN inv.result.next_arguments
             /\ inv.result.next_arguments["lyric"] = inv.args.lyric
        ELSE IF /\ CacheKey(ResolvedSongId(inv.args)) \in DOMAIN cache
                /\ cache[CacheKey(ResolvedSongId(inv.args))].lrc # <<>>
        THEN inv.result.lyric_url = cache[CacheKey(ResolvedSongId(inv.args))].lrc
        ELSE IF Truthy(ResolvedSongId(inv.args)) /\ token # <<>>
        THEN inv.result.lyric_url =
                BuildLyricUrl(token, ResolvedSongId(inv.args), <<>>)
        ELSE inv.result.lyric_url = <<>>

\* C5: in every structured result next_arguments contains url, title and
\* artist, never both lyric_url and lyric, and has_lyric is true exactly when
\* it contains one of the two.
C5_NextArguments ==
    JsonDone =>
        /\ {"url", "title", "artist"} \subseteq DOMAIN inv.result.next_arguments
        /\ ~({"lyric_url", "lyric"} \subseteq DOMAIN inv.result.next_arguments)
        /\ inv.result.has_lyric <=>
              \/ "lyric_url" \in DOMAIN inv.result.next_arguments
              \/ "lyric" \in DOMAIN inv.result.next_arguments

C5_Witness ==
    /\ JsonDone
    /\ "lyric_url" \in DOMAIN inv.result.next_arguments
    /\ "lyric" \notin DOMAIN inv.result.next_arguments
    /\ inv.result.next_arguments["lyric_url"] = inv.result.lyric_url
    /\ inv.result.has_lyric

\* C6: a resolve called with neither an id (id / song_id) nor a url returns
\* the invalid-reference message without issuing any network request.
C6_InvalidReferenceNoRequest ==
    (/\ inv.tool = "resolve"
     /\ ~Truthy(inv.args.id) /\ ~Truthy(inv.args.song_id)
     /\ inv.args.url = <<>>) =>
        /\ inv.pc = "done"
        /\ inv.result = Message(MissingReference)
        /\ inv.reqs = <<>>

C6_Witness ==
    /\ ResolveDone
    /\ inv.args.id = <<>> /\ inv.args.song_id = None /\ inv.args.url = <<>>
    /\ inv.result = Message(MissingReference)
    /\ inv.reqs = <<>>

\* C7: a resolve called with only a url (no id) never issues the play-URL
\* lookup, and the first request it makes is the HEAD on the normalized url;
\* it makes that request whenever the url is not blank and can be parsed
\* (once it is past the progress reports that precede the request).
C7_UrlOnlySkipsLookup ==
    (/\ inv.tool = "resolve"
     /\ ~Truthy(inv.args.id) /\ ~Truthy(inv.args.song_id)
     /\ inv.args.url # <<>>) =>
        /\ ~HasReq("url")
        /\ inv.reqs # <<>> =>
              inv.reqs[1] = Request("HEAD", Normalize(inv.args.url))
        /\ (Strip(inv.args.url) # <<>> /\ ~NormalizeRaises(inv.args.url)) =>
              inv.reqs # <<>> \/ inv.pc \in {"progress_10", "progress_55"}

C7_Witness ==
    /\ JsonDone
    /\ inv.args.id = None /\ inv.args.song_id = None /\ inv.args.url = U_rel
    /\ inv.reqs[1] = Request("HEAD", Normalize(U_rel))
    /\ ~HasReq("url")

\* C8: with no signing secret no tool call crashes: a search still issues its
\* request, a resolve with an id and no url returns the lookup-failure
\* message, and a resolve with a url returns a structured result with that
\* url resolved.
C8_NoSecretNoCrash ==
    token = <<>> =>
        /\ inv.pc # "raised"
        /\ (inv.tool = "search" /\ inv.pc = "done") => HasReq("search")
        /\ (ResolveDone /\ Truthy(ResolvedSongId(inv.args)) /\ inv.args.url = <<>>) =>
              inv.result = Message(LookupFailed) /\ inv.reqs = <<>>
        /\ (ResolveDone /\ Strip(inv.args.url) # <<>>) =>
              inv.result.kind = "json" /\ inv.result.final_url # <<>>

\* C9: resolve_music_url ends with a failure message only when no id and no
\* url were supplied, or when no usable url was supplied and the lookup by id
\* yielded nothing; in every other case it returns a structured result.
C9_FailureOnlyTwoCases ==
    (inv.tool = "resolve" /\ inv.pc \in {"done", "raised"}) =>
        IF ~Truthy(ResolvedSongId(inv.args)) /\ inv.args.url = <<>>
        THEN inv.pc = "done" /\ inv.result = Message(MissingReference)
        ELSE IF /\ Truthy(ResolvedSongId(inv.args))
                /\ Strip(inv.args.url) = <<>>
                /\ inv.source_url = <<>>
        THEN inv.pc = "done" /\ inv.result = Message(LookupFailed)
        ELSE inv.pc = "done" /\ inv.result.kind = "json"

Rank(kind) ==
    CASE kind = "url" -> 1 [] kind = "HEAD" -> 2 [] kind = "GET" -> 3
      [] kind = "lrc" -> 4 [] OTHER -> 0

\* The requests of the invocation in flight follow the order url lookup, HEAD,
\* streamed GET, lyric fetch, each kind at most once.
OrderedOnce ==
    \A i, j \in 1..Len(inv.reqs) :
        i < j => Rank(inv.reqs[i].kind) > 0 /\ Rank(inv.reqs[i].kind) < Rank(inv.reqs[j].kind)

\* C11: every resolve_music_url invocation returns: it issues its requests in
\* the order url lookup, HEAD, streamed GET, lyric fetch, at most one of each
\* kind, and it never ends in another way than by returning.
C11_ReturnsInOrder ==
    inv.tool = "resolve" => OrderedOnce /\ inv.pc # "raised"

\* C12: in every reachable state no key of the search-result cache is the
\* empty string.
C12_NoEmptyCacheKey == <<>> \notin DOMAIN cache

C12_Witness ==
    /\ inv.tool = "search" /\ inv.pc = "done"
    /\ \E i \in 1..Len(inv.results) : inv.results[i].id.v = <<>>
    /\ cache # EmptyFn
    /\ <<>> \notin DOMAIN cache

\* The string is empty or starts with an explicit http: or https: scheme.
HttpOrEmpty(u) ==
    \/ u = <<>>
    \/ StartsWith(Lower(u), <<"h", "t", "t", "p", ":">>)
    \/ StartsWith(Lower(u), <<"h", "t", "t", "p", "s", ":">>)

\* C14: for every input string the output of _normalize_music_url is empty
\* or a URL with an explicit http or https scheme, and so are the url and the
\* lrc of every stored search result.
C14_HttpOrEmpty ==
    /\ (inv.tool = "normalize" /\ inv.pc = "done") => HttpOrEmpty(inv.normalized_url)
    /\ \A k \in DOMAIN cache : HttpOrEmpty(cache[k].url) /\ HttpOrEmpty(cache[k].lrc)

\* The answer the upstream gave to the lyric fetch of the invocation in flight.
LyricAnswered == <<"lrc", ResolvedSongId(inv.args)>> \in DOMAIN memo

\* C15: when a resolve with an id can determine no lyric URL, the lyric text
\* is fetched from the upstream lyric endpoint, and when that serves non-empty
\* text the result carries it in next_arguments.lyric with has_lyric true.
C15_LyricTextFallback ==
    (/\ JsonDone
     /\ Truthy(ResolvedSongId(inv.args))
     /\ inv.result.lyric_url = <<>>) =>
        /\ HasReq("lrc")
        /\ LyricAnswered
        /\ FetchSongLyricResult(memo[<<"lrc", ResolvedSongId(inv.args)>>]) # <<>> =>
              /\ "lyric" \in DOMAIN inv.result.next_arguments
              /\ inv.result.next_arguments["lyric"] =
                    FetchSongLyricResult(memo[<<"lrc", ResolvedSongId(inv.args)>>])
              /\ inv.result.has_lyric

\* C20: after as many consecutive next_song calls as the playlist has entries
\* (n >= 1, nothing else in between) every playlist entry has been the current
\* song at least once, and each of the calls leaves is_playing true.
C20_NextSongCycles ==
    /\ visited # <<>> => playback.is_playing
    /\ (playback.playlist # <<>> /\ Len(visited) = Len(playback.playlist)) =>
          \A i \in 1..Len(playback.playlist) :
              \E j \in 1..Len(visited) : visited[j] = playback.playlist[i]

\* C16: the step in which a resolve_music_url call returns its structured
\* result leaves current_song the resolved track (url = the returned
\* final_url, lyric_url = the returned lyric_url, name and artist as given),
\* is_playing false and the playlist as it was; the step in which it returns
\* a failure message leaves the playback state and the cache as they were.
C16_ResolveFrame ==
    [][(/\ inv'.tool = "resolve" /\ inv'.pc = "done"
        /\ <<inv, memo, prev>>' # <<inv, memo, prev>>) =>
            IF inv'.result.kind = "json"
            THEN /\ playback'.current_song.url = inv'.result.final_url
                 /\ playback'.current_song.lyric_url = inv'.result.lyric_url
                 /\ playback'.current_song.name = inv'.args.song_name
                 /\ playback'.current_song.artist = inv'.args.artist
                 /\ playback'.is_playing = FALSE
                 /\ playback'.playlist = playback.playlist
                 /\ cache' = cache
            ELSE playback' = playback /\ cache' = cache]_vars

C16_Witness ==
    /\ JsonDone
    /\ playback.playlist # <<>>
    /\ cache # EmptyFn
    /\ playback.current_song.url = inv.result.final_url
    /\ inv.result.final_url = U_g
    /\ playback.current_song.lyric_url = inv.result.lyric_url
    /\ inv.result.lyric_url # <<>>
    /\ ~playback.is_playing

\* ------------------------------------------------------------------------
\* Every returned result is the cache entry of its id.
EveryResultCached(results, c) ==
    \A k \in 1..Len(results) :
        /\ results[k].id.v \in DOMAIN c
        /\ c[results[k].id.v] = results[k]

\* Every returned result whose id is not empty has a cache entry under its
\* id, and that entry is the last returned result with that id.
LastResultPerIdCached(results, c) ==
    \A k \in 1..Len(results) :
        results[k].id.v # <<>> =>
            /\ results[k].id.v \in DOMAIN c
            /\ (\A j \in (k + 1)..Len(results) : results[j].id.v # results[k].id.v)
                  => c[results[k].id.v] = results[k]

\* C13 as stated: when a search returns, the cache entry for the id of every
\* returned result is that result.
C13_EveryResultCached ==
    [][\A i \in 1..Len(tasks) :
          (/\ tasks[i].r.tool = "search"
           /\ tasks[i].r.pc \in {"search_wait", "search_close"}
           /\ tasks'[i].r.pc = "done")
          => EveryResultCached(tasks'[i].r.results, cache')]_vars

\* C13 amended: at the moment a search has stored its results (the end of
\* its loop, before the call is suspended again or returns), every result it
\* is going to return whose id is not empty has a cache entry under its id,
\* and that entry is the last such result with that id.
C13_LastResultPerIdCached ==
    [][\A i \in 1..Len(tasks) :
          (/\ tasks[i].r.tool = "search"
           /\ tasks[i].r.pc = "search_wait"
           /\ tasks'[i].r.pc \in {"search_close", "done"})
          => LastResultPerIdCached(tasks'[i].r.results, cache')]_vars

\* Two searches are pending; the first has stored its two results with the
\* same id and is suspended before its return.
C13_Witness ==
    /\ Len(tasks) >= 2
    /\ tasks[1].r.tool = "search" /\ tasks[1].r.pc = "search_close"
    /\ tasks[2].r.tool = "search" /\ tasks[2].r.pc = "search_wait"
    /\ Len(tasks[1].r.results) = 2
    /\ tasks[1].r.results[1].id.v = <<"7">> /\ tasks[1].r.results[2].id.v = <<"7">>
    /\ tasks[1].r.results[1] # tasks[1].r.results[2]
    /\ cache[<<"7">>] = tasks[1].r.results[2]

\* C18: a search that returns an empty list leaves the search-result cache
\* exactly as it was before the call.
C18_EmptySearchKeepsCache ==
    [][(/\ inv.tool = "search" /\ inv.pc = "search_wait"
        /\ inv'.pc \in {"search_close", "done"} /\ inv'.results = <<>>)
       => cache' = cache]_vars

\* C19: every structured result of resolve_music_url has a non-empty
\* final_url, and the current_song it recorded has a non-empty url.
C19_FinalUrlNonEmpty ==
    JsonDone =>
        /\ inv.result.final_url # <<>>
        /\ CurrentSong(inv).url # <<>>

\* The record the resolve invocation r wrote: r is past its write (at its
\* last report, or returned with the JSON object), and every field is r's
\* own, url and lyric_url the ones its result returns.
WrittenBy(song, r) ==
    /\ r.tool = "resolve" /\ r.pc \in {"progress_100", "done"}
    /\ r.pc = "done" =>
          /\ r.result.kind = "json"
          /\ r.result.final_url = r.final_url /\ r.result.lyric_url = r.lyric_url
    /\ DOMAIN song = {"id", "name", "artist", "url", "source_url", "lyric_url"}
    /\ song.id = (IF Truthy(ResolvedSongId(r.args)) THEN ResolvedSongId(r.args)
                  ELSE r.source_url)
    /\ song.name = r.args.song_name /\ song.artist = r.args.artist
    /\ song.url = r.final_url
    /\ song.source_url = r.source_url
    /\ song.lyric_url = r.lyric_url

SelectedBy(song, t) ==
    t.r.tool \in {"next_song", "previous_song"} /\ t.song # NoSong /\ t.song = song

IsAdd(t) == t.r.tool = "add_to_playlist"
IsClear(t) == t.r.tool = "clear_playlist"

RECURSIVE AddedSongs(_)
AddedSongs(ts) ==
    IF ts = <<>> THEN <<>>
    ELSE IF IsAdd(Head(ts)) THEN <<Head(ts).song>> \o AddedSongs(Tail(ts))
    ELSE AddedSongs(Tail(ts))

\* C17: under every interleaving of concurrent tool calls, current_song is
\* absent, or a playlist entry selected by a next_song/previous_song call, or
\* the complete record written by one single resolve call; and when no
\* clear_playlist was called the playlist holds exactly the songs of the
\* completed add_to_playlist calls, one entry per call.
C17_SerializedWrites ==
    /\ \/ playback.current_song = NoSong
       \/ \E i \in 1..Len(tasks) : SelectedBy(playback.current_song, tasks[i])
       \/ \E i \in 1..Len(tasks) : WrittenBy(playback.current_song, tasks[i].r)
    /\ (\A i \in 1..Len(tasks) : ~IsClear(tasks[i]))
          => playback.playlist = AddedSongs(tasks)

\* Two resolve calls that each awaited a request have both returned with
\* different lyric URLs, the current song is the record of the first call and
\* not of the second, and a third call has added a song to the playlist.
C17_Witness ==
    /\ Len(tasks) = 3
    /\ tasks[1].r.tool = "resolve" /\ tasks[2].r.tool = "resolve"
    /\ tasks[1].r.pc = "done" /\ tasks[2].r.pc = "done"
    /\ tasks[1].r.result.kind = "json" /\ tasks[2].r.result.kind = "json"
    /\ tasks[1].r.lyric_url # tasks[2].r.lyric_url
    /\ tasks[1].r.reqs # <<>> /\ tasks[2].r.reqs # <<>>
    /\ WrittenBy(playback.current_song, tasks[1].r)
    /\ ~WrittenBy(playback.current_song, tasks[2].r)
    /\ IsAdd(tasks[3]) /\ Len(playback.playlist) = 1

====
